---- MODULE Spec2Model ----
(***************************************************************************)
(* Model of src/app.py: the frailty-risk form, its attribution function    *)
(* calculate_shap_values, and the result section the script renders after  *)
(* a submission (summary lists and the ranked contribution table).         *)
(*                                                                         *)
(* Numbers.  The script computes with Python floats.  The model computes   *)
(* the same expressions exactly, in integer units of 1/Scale, where Scale  *)
(* is a common denominator of every weight and reference constant of the   *)
(* formula, so that each product weight * (value / reference) is an        *)
(* integer number of units.  Rounding of the binary floats (last-ulp       *)
(* effects) is not modelled.  Values with one decimal (bmi, bl_crp) are    *)
(* held in tenths: 26.0 is 260, 9.1 is 91.                                 *)
(***************************************************************************)
EXTENDS Integers, Sequences, FiniteSets

VARIABLES
    pc,                 \* the script run's position: "form", "predict" or "done"
    widgets,            \* the values the form's widget calls have returned so far in this run
    sample_data,        \* the dict built at lines 244-256: a sequence of items in insertion order
    submit_button,      \* st.form_submit_button's value in the current script run
    exception,          \* the exception that ended the run, or "none"
    base_val,           \* line 259
    current_val,        \* line 259
    shap_vals,          \* line 259
    feature_names,      \* line 259
    features,           \* line 259
    feature_display,    \* the labels create_shap_force_plot hands to the plot
    risk_factors,       \* lines 283-301
    protective_factors, \* lines 311-324
    contribution_df     \* lines 338-362

vars == <<pc, widgets, sample_data, submit_button, exception, base_val, current_val, shap_vals,
          feature_names, features, feature_display, risk_factors,
          protective_factors, contribution_df>>

----------------------------------------------------------------------------
(* Fixed-point units *)

Scale == 71 * 26 * 9 * 1000

\* n hundredths, in units: Hundredths(8) is the literal 0.08
Hundredths(n) == (n * Scale) \div 100

\* The value of a result variable that is not bound (no probability is negative)
None == -1

----------------------------------------------------------------------------
(* Python dicts: a sequence of items with distinct keys, in insertion order *)

Item(k, v) == [k |-> k, v |-> v]

\* list(sample_data.keys())
keys(d) == [i \in 1..Len(d) |-> d[i].k]

\* k in sample_data
Has(d, k) == \E i \in 1..Len(d) : d[i].k = k

\* sample_data[k], for a key that is present
Get(d, k) == d[CHOOSE i \in 1..Len(d) : d[i].k = k].v

\* feat in features
InList(l, x) == \E i \in 1..Len(l) : l[i] = x

\* features.index(f), for an element that is present (1-based here)
index(l, x) == CHOOSE i \in 1..Len(l) : l[i] = x /\ \A j \in 1..(i - 1) : l[j] # x

RECURSIVE sum(_)
sum(s) == IF s = <<>> THEN 0 ELSE Head(s) + sum(Tail(s))

Max(a, b) == IF a >= b THEN a ELSE b
Min(a, b) == IF a <= b THEN a ELSE b
abs(x) == IF x < 0 THEN -x ELSE x

----------------------------------------------------------------------------
(* calculate_shap_values *)

DisplayKeys == {"FTSST", "Complications", "fall", "bl_crp", "PA", "bl_hgb",
                "smoke", "gender", "age", "bmi", "ADL"}

feature_display_names(f) ==
    CASE f = "FTSST"         -> "FTSST"
      [] f = "Complications" -> "Complications"
      [] f = "fall"          -> "History of falls"
      [] f = "bl_crp"        -> "CRP"
      [] f = "PA"            -> "PA"
      [] f = "bl_hgb"        -> "HGB"
      [] f = "smoke"         -> "Smoke"
      [] f = "gender"        -> "Gender"
      [] f = "age"           -> "Age"
      [] f = "bmi"           -> "BMI"
      [] f = "ADL"           -> "ADL"

\* The order of the eleven assignments, lines 105-117
AssignOrder == <<"age", "FTSST", "bmi", "Complications", "fall", "ADL", "bl_crp",
                 "gender", "PA", "smoke", "bl_hgb">>

\* ShapRhs with the hemoglobin term scaled by its reference like age, bmi and bl_crp
ShapRhs_hgb_scaled(f, d) ==
    CASE f = "age"           -> (Hundredths(8) * Get(d, "age")) \div 71
      [] f = "FTSST"         -> Hundredths(6) * Get(d, "FTSST")
      [] f = "bmi"           -> (Hundredths(5) * Get(d, "bmi")) \div 260
      [] f = "Complications" -> Hundredths(4) * Get(d, "Complications")
      [] f = "fall"          -> Hundredths(3) * Get(d, "fall")
      [] f = "ADL"           -> Hundredths(2) * Get(d, "ADL")
      [] f = "bl_crp"        -> (Hundredths(1) * Get(d, "bl_crp")) \div 90
      [] f = "gender"        -> Hundredths(4) * Get(d, "gender")
      [] f = "PA"            -> (-Hundredths(2)) * (2 - Get(d, "PA"))
      [] f = "smoke"         -> (-Hundredths(3)) * (1 - Get(d, "smoke"))
      [] f = "bl_hgb"        -> ((-Hundredths(1)) * Get(d, "bl_hgb")) \div 150

\* ShapRhs with the physical-activity term on the value instead of 2 - value
ShapRhs_pa_direct(f, d) ==
    CASE f = "age"           -> (Hundredths(8) * Get(d, "age")) \div 71
      [] f = "FTSST"         -> Hundredths(6) * Get(d, "FTSST")
      [] f = "bmi"           -> (Hundredths(5) * Get(d, "bmi")) \div 260
      [] f = "Complications" -> Hundredths(4) * Get(d, "Complications")
      [] f = "fall"          -> Hundredths(3) * Get(d, "fall")
      [] f = "ADL"           -> Hundredths(2) * Get(d, "ADL")
      [] f = "bl_crp"        -> (Hundredths(1) * Get(d, "bl_crp")) \div 90
      [] f = "gender"        -> Hundredths(4) * Get(d, "gender")
      [] f = "PA"            -> (-Hundredths(2)) * Get(d, "PA")
      [] f = "smoke"         -> (-Hundredths(3)) * (1 - Get(d, "smoke"))
      [] f = "bl_hgb"        -> -Hundredths(1)

\* ShapRhs with -0.1 for -0.01 in the hemoglobin term
ShapRhs_hgb_tenth(f, d) ==
    CASE f = "age"           -> (Hundredths(8) * Get(d, "age")) \div 71
      [] f = "FTSST"         -> Hundredths(6) * Get(d, "FTSST")
      [] f = "bmi"           -> (Hundredths(5) * Get(d, "bmi")) \div 260
      [] f = "Complications" -> Hundredths(4) * Get(d, "Complications")
      [] f = "fall"          -> Hundredths(3) * Get(d, "fall")
      [] f = "ADL"           -> Hundredths(2) * Get(d, "ADL")
      [] f = "bl_crp"        -> (Hundredths(1) * Get(d, "bl_crp")) \div 90
      [] f = "gender"        -> Hundredths(4) * Get(d, "gender")
      [] f = "PA"            -> (-Hundredths(2)) * (2 - Get(d, "PA"))
      [] f = "smoke"         -> (-Hundredths(3)) * (1 - Get(d, "smoke"))
      [] f = "bl_hgb"        -> -Hundredths(10)

\* The right-hand side of the assignment to shap_values[features.index(f)]
ShapRhs(f, d) ==
    CASE f = "age"           -> (Hundredths(8) * Get(d, "age")) \div 71
      [] f = "FTSST"         -> Hundredths(6) * Get(d, "FTSST")
      [] f = "bmi"           -> (Hundredths(5) * Get(d, "bmi")) \div 260
      [] f = "Complications" -> Hundredths(4) * Get(d, "Complications")
      [] f = "fall"          -> Hundredths(3) * Get(d, "fall")
      [] f = "ADL"           -> Hundredths(2) * Get(d, "ADL")
      [] f = "bl_crp"        -> (Hundredths(1) * Get(d, "bl_crp")) \div 90
      [] f = "gender"        -> Hundredths(4) * Get(d, "gender")
      [] f = "PA"            -> (-Hundredths(2)) * (2 - Get(d, "PA"))
      [] f = "smoke"         -> (-Hundredths(3)) * (1 - Get(d, "smoke"))
      [] f = "bl_hgb"        -> -Hundredths(1)

\* Assigned with the n-th assignment writing position n instead of features.index
RECURSIVE Assigned_by_position(_, _)
Assigned_by_position(d, n) ==
    IF n = 0 THEN [i \in 1..Len(d) |-> 0]
    ELSE [Assigned_by_position(d, n - 1) EXCEPT ![n] = ShapRhs(AssignOrder[n], d)]

\* shap_values after the first n assignments, starting from np.zeros
RECURSIVE Assigned(_, _)
Assigned(d, n) ==
    IF n = 0 THEN [i \in 1..Len(d) |-> 0]
    ELSE [Assigned(d, n - 1) EXCEPT ![index(keys(d), AssignOrder[n])] = ShapRhs(AssignOrder[n], d)]

\* The exception raised by the assignment for f when f is not a key: the
\* right-hand side is evaluated first and reads sample_data[f] (KeyError);
\* line 117 has a constant right-hand side, so features.index fails (ValueError)
MissingError(f) == IF f = "bl_hgb" THEN "ValueError" ELSE "KeyError"

\* Clamp with the bounds in percent: max(1, min(99, current_value))
Clamp_percent(x) == Max(Scale, Min(99 * Scale, x))

\* Clamp without the upper bound: max(0.01, current_value)
Clamp_floor_only(x) == Max(Hundredths(1), x)

\* max(0.01, min(0.99, current_value))
Clamp(x) == Max(Hundredths(1), Min(Hundredths(99), x))

Raised(e) ==
    [exception |-> e, base_value |-> None, current_value |-> None,
     shap_values |-> <<>>, feature_names |-> <<>>, features |-> <<>>]

\* calculate_shap_values looping over the keys that are present, so that an
\* absent key contributes nothing instead of raising
calculate_shap_values_present_keys(d) ==
    LET fs == keys(d)
    IN  IF \E i \in 1..Len(fs) : fs[i] \notin DisplayKeys
          THEN Raised("KeyError")
        ELSE LET shap_values == [i \in 1..Len(fs) |-> ShapRhs(fs[i], d)]
                 base_value == Hundredths(35)
             IN  [exception |-> "none",
                  base_value |-> base_value,
                  current_value |-> Clamp(base_value + sum(shap_values)),
                  shap_values |-> shap_values,
                  feature_names |-> [i \in 1..Len(fs) |-> feature_display_names(fs[i])],
                  features |-> fs]

calculate_shap_values(d) ==
    LET fs == keys(d)
        absent == {n \in 1..Len(AssignOrder) : ~Has(d, AssignOrder[n])}
    IN  IF \E i \in 1..Len(fs) : fs[i] \notin DisplayKeys
          THEN Raised("KeyError")
        ELSE IF absent # {}
          THEN Raised(MissingError(AssignOrder[CHOOSE n \in absent : \A m \in absent : n <= m]))
        ELSE LET shap_values == Assigned(d, Len(AssignOrder))
                 base_value == Hundredths(35)
             IN  [exception |-> "none",
                  base_value |-> base_value,
                  current_value |-> Clamp(base_value + sum(shap_values)),
                  shap_values |-> shap_values,
                  feature_names |-> [i \in 1..Len(fs) |-> feature_display_names(fs[i])],
                  features |-> fs]

----------------------------------------------------------------------------
(* create_shap_force_plot: the labels "<display name> = <value>", one per key *)
(* of sample_data, in the order of its keys.  A label is held as the pair of  *)
(* the two values the f-string interpolates.                                  *)

create_shap_force_plot(base_value, shap_values, d) ==
    [i \in 1..Len(d) |-> [name |-> feature_display_names(d[i].k), value |-> d[i].v]]

----------------------------------------------------------------------------
(* The result section, lines 276-373 *)

positive_features == <<"FTSST", "Complications", "fall", "bl_crp", "age", "bmi", "ADL", "gender">>
negative_features == <<"PA", "smoke", "bl_hgb">>

\* IsRisk with >= for >
IsRisk_inclusive(shap_val) == shap_val >= Hundredths(1)

\* line 290: shap_val > 0.01
IsRisk(shap_val) == shap_val > Hundredths(1)

\* line 318: shap_val < -0.01
IsProtective(shap_val) == shap_val < -Hundredths(1)

\* An entry of a summary list: the three values its f-string interpolates
Factor(feat, fs, sv, d) ==
    [name |-> feature_display_names(feat), value |-> Get(d, feat), shap_val |-> sv[index(fs, feat)]]

\* The loop of lines 285-301 over the first n elements of positive_features
RECURSIVE RiskLoop(_, _, _, _)
RiskLoop(n, fs, sv, d) ==
    IF n = 0 THEN <<>>
    ELSE LET feat == positive_features[n]
             before == RiskLoop(n - 1, fs, sv, d)
         IN  IF InList(fs, feat) /\ IsRisk(sv[index(fs, feat)])
               THEN Append(before, Factor(feat, fs, sv, d))
               ELSE before

\* The loop of lines 313-324 over the first n elements of negative_features
RECURSIVE ProtectiveLoop(_, _, _, _)
ProtectiveLoop(n, fs, sv, d) ==
    IF n = 0 THEN <<>>
    ELSE LET feat == negative_features[n]
             before == ProtectiveLoop(n - 1, fs, sv, d)
         IN  IF InList(fs, feat) /\ IsProtective(sv[index(fs, feat)])
               THEN Append(before, Factor(feat, fs, sv, d))
               ELSE before

\* line 358: the labels are the script's Chinese strings, written here in English
Direction(shap_val) == IF shap_val > 0 THEN "increases risk" ELSE "decreases risk"

\* lines 339-359: one row per feature, in the order of features
contribution_data(fs, sv, d) ==
    [i \in 1..Len(fs) |->
        [name |-> feature_display_names(fs[i]),
         shap |-> sv[i],
         value |-> Get(d, fs[i]),
         direction |-> Direction(sv[i])]]

\* line 362: sort_values('SHAP', key=abs, ascending=False).  Rows of equal
\* absolute value keep their order, as pandas leaves them for a frame this short.
RECURSIVE InsertRow(_, _)
InsertRow(row, sorted) ==
    IF sorted = <<>> THEN <<row>>
    ELSE IF abs(Head(sorted).shap) >= abs(row.shap)
           THEN <<Head(sorted)>> \o InsertRow(row, Tail(sorted))
           ELSE <<row>> \o sorted

RECURSIVE SortRows(_, _)
SortRows(rows, n) ==
    IF n = 0 THEN <<>> ELSE InsertRow(rows[n], SortRows(rows, n - 1))

sort_values(rows) == SortRows(rows, Len(rows))

----------------------------------------------------------------------------------------------------------------------------------------
(* The script run.  Streamlit executes the script from the top on every    *)
(* rerun, with fresh script variables; the widget calls of lines 189-233    *)
(* return the values the user set, in the order of the calls.               *)

\* Of each slider's range the model takes SliderSteps + 1 evenly spread values,
\* both ends among them
SliderSteps == 2

Spread(lo, hi) == {lo + (i * (hi - lo)) \div SliderSteps : i \in 0..SliderSteps}

\* The values the form's widgets offer, lines 189-233: for a slider the spread
\* over its range, its default, and for bl_crp the step next to the default,
\* where the contribution crosses the 0.01 threshold
AgeValues  == Spread(50, 100) \cup {71}
BmiValues  == Spread(150, 400) \cup {260}
CrpValues  == Spread(0, 200) \cup {90, 91}
HgbValues  == {80, 150}
Binary     == {0, 1}
Ordinal    == {0, 1, 2}

\* The widget calls in script order
WidgetOrder == <<"age", "gender", "bmi", "smoke", "ftsst", "adl", "pa",
                 "complications", "fall", "bl_crp", "bl_hgb">>

WidgetValues(w) ==
    CASE w = "age"           -> AgeValues
      [] w = "gender"        -> Binary
      [] w = "bmi"           -> BmiValues
      [] w = "smoke"         -> Binary
      [] w = "ftsst"         -> Binary
      [] w = "adl"           -> Binary
      [] w = "pa"            -> Ordinal
      [] w = "complications" -> Ordinal
      [] w = "fall"          -> Binary
      [] w = "bl_crp"        -> CrpValues
      [] w = "bl_hgb"        -> HgbValues

\* The script variable w, once its widget call has returned
Widget(ws, w) == ws[index(WidgetOrder, w)]

\* lines 244-256
BuildSampleData(ws) ==
    << Item("FTSST", Widget(ws, "ftsst")),
       Item("Complications", Widget(ws, "complications")),
       Item("fall", Widget(ws, "fall")),
       Item("bl_crp", Widget(ws, "bl_crp")),
       Item("PA", Widget(ws, "pa")),
       Item("bl_hgb", Widget(ws, "bl_hgb")),
       Item("smoke", Widget(ws, "smoke")),
       Item("gender", Widget(ws, "gender")),
       Item("age", Widget(ws, "age")),
       Item("bmi", Widget(ws, "bmi")),
       Item("ADL", Widget(ws, "adl")) >>

\* lines 259-373 for the dict d: a run that raises renders nothing more
Run(d) ==
    \E r \in {calculate_shap_values(d)} :
    LET ok == r.exception = "none"
    IN  /\ sample_data' = d
        /\ exception' = r.exception
        /\ base_val' = r.base_value
        /\ current_val' = r.current_value
        /\ shap_vals' = r.shap_values
        /\ feature_names' = r.feature_names
        /\ features' = r.features
        /\ feature_display' =
              IF ok THEN create_shap_force_plot(r.base_value, r.shap_values, d) ELSE <<>>
        /\ risk_factors' =
              IF ok THEN RiskLoop(Len(positive_features), r.features, r.shap_values, d) ELSE <<>>
        /\ protective_factors' =
              IF ok THEN ProtectiveLoop(Len(negative_features), r.features, r.shap_values, d) ELSE <<>>
        /\ contribution_df' =
              IF ok THEN sort_values(contribution_data(r.features, r.shap_values, d)) ELSE <<>>

\* The start of a script run: no script variable is bound yet
Init ==
    /\ pc = "form"
    /\ widgets = <<>>
    /\ submit_button = FALSE
    /\ sample_data = <<>>
    /\ exception = "none"
    /\ base_val = None
    /\ current_val = None
    /\ shap_vals = <<>>
    /\ feature_names = <<>>
    /\ features = <<>>
    /\ feature_display = <<>>
    /\ risk_factors = <<>>
    /\ protective_factors = <<>>
    /\ contribution_df = <<>>

results == <<sample_data, exception, base_val, current_val, shap_vals, feature_names,
             features, feature_display, risk_factors, protective_factors, contribution_df>>

\* lines 189-233: the next widget call returns the value the user set
WidgetCall ==
    /\ pc = "form"
    /\ Len(widgets) < Len(WidgetOrder)
    /\ \E v \in WidgetValues(WidgetOrder[Len(widgets) + 1]) : widgets' = Append(widgets, v)
    /\ UNCHANGED <<pc, submit_button, results>>

\* line 237: True in the run a press of the button starts, False in any other
form_submit_button ==
    /\ pc = "form"
    /\ Len(widgets) = Len(WidgetOrder)
    /\ \E pressed \in BOOLEAN :
          /\ submit_button' = pressed
          /\ pc' = IF pressed THEN "predict" ELSE "done"
    /\ UNCHANGED <<widgets, results>>

\* lines 242-373
Predict ==
    /\ pc = "predict"
    /\ Run(BuildSampleData(widgets))
    /\ pc' = "done"
    /\ UNCHANGED <<widgets, submit_button>>

\* Rerun with the results of the last run kept, as if held in the session state
Rerun_keeping_results ==
    /\ pc = "done"
    /\ pc' = "form"
    /\ widgets' = <<>>
    /\ submit_button' = FALSE
    /\ UNCHANGED results

\* The next event (a press of the button, a page load) starts the script anew
Rerun ==
    /\ pc = "done"
    /\ pc' = "form"
    /\ widgets' = <<>>
    /\ submit_button' = FALSE
    /\ sample_data' = <<>>
    /\ exception' = "none"
    /\ base_val' = None
    /\ current_val' = None
    /\ shap_vals' = <<>>
    /\ feature_names' = <<>>
    /\ features' = <<>>
    /\ feature_display' = <<>>
    /\ risk_factors' = <<>>
    /\ protective_factors' = <<>>
    /\ contribution_df' = <<>>

Next == WidgetCall \/ form_submit_button \/ Predict \/ Rerun

Spec == Init /\ [][Next]_vars

----------------------------------------------------------------------------
(* calculate_shap_values and the result section as functions of their      *)
(* argument: lines 259-373 applied to dicts the form does not build, with  *)
(* keys inserted in other orders, keys absent, an unknown key, and values  *)
(* outside the widgets' ranges.                                            *)

\* The widgets' defaults, lines 189-233 (a selectbox starts at its first option)
DefaultValue(k) ==
    CASE k = "age"    -> 71
      [] k = "bmi"    -> 260
      [] k = "bl_crp" -> 90
      [] k = "bl_hgb" -> 150
      [] OTHER        -> 0

\* Argument values: of each attribute's domain a sample, and values outside it
\* (age 1000, FTSST -10, PA 3)
EngineValues(k) ==
    CASE k = "age"           -> {50, 1000}
      [] k = "bmi"           -> {150, 400}
      [] k = "bl_crp"        -> {90, 91}
      [] k = "bl_hgb"        -> {80, 150}
      [] k = "FTSST"         -> {-10, 0, 1}
      [] k = "Complications" -> {0, 2}
      [] k = "PA"            -> {0, 2, 3}
      [] OTHER               -> {0, 1}

FormOrder == keys(BuildSampleData([i \in 1..Len(WidgetOrder) |-> 0]))

Reverse(s) == [i \in 1..Len(s) |-> s[Len(s) + 1 - i]]

\* Insertion orders of the eleven keys
KeyOrders == {FormOrder, Reverse(FormOrder), AssignOrder}

\* The dict holding the keys of order that are in present, inserted in that order
RECURSIVE DictOf(_, _, _)
DictOf(order, present, val) ==
    IF order = <<>> THEN <<>>
    ELSE IF Head(order) \in present
           THEN <<Item(Head(order), val[Head(order)])>> \o DictOf(Tail(order), present, val)
           ELSE DictOf(Tail(order), present, val)

DefaultValues == [k \in DisplayKeys |-> DefaultValue(k)]

\* The same items inserted in another order
Reorder(d, order) == DictOf(order, DisplayKeys, [k \in DisplayKeys |-> Get(d, k)])

\* Assignments of a value to each of the eleven attributes
EngineAssignments ==
    [age : EngineValues("age"), bmi : EngineValues("bmi"),
     bl_crp : EngineValues("bl_crp"), bl_hgb : EngineValues("bl_hgb"),
     FTSST : EngineValues("FTSST"), Complications : EngineValues("Complications"),
     PA : EngineValues("PA"), fall : EngineValues("fall"),
     ADL : EngineValues("ADL"), gender : EngineValues("gender"),
     smoke : EngineValues("smoke")]

\* The sets of keys of a record with one or more keys absent
IncompleteKeys == (SUBSET DisplayKeys) \ {DisplayKeys}

\* lines 259-373 entered with the dict arg as sample_data
Call(arg) ==
    \E d \in {arg} :
        /\ Run(d)
        /\ submit_button' = TRUE
        /\ pc' = "done"
        /\ UNCHANGED widgets

\* No call is under way
Idle == pc = "form" /\ widgets = <<>>

\* A record holding all eleven keys
CallComplete ==
    /\ Idle
    /\ \E o \in KeyOrders, val \in EngineAssignments : Call(DictOf(o, DisplayKeys, val))

\* The default record with one or more keys absent
CallIncomplete ==
    /\ Idle
    /\ \E o \in KeyOrders, present \in IncompleteKeys : Call(DictOf(o, present, DefaultValues))

\* The default record with a twelfth key
CallExtraKey ==
    /\ Idle
    /\ \E o \in KeyOrders : Call(Append(DictOf(o, DisplayKeys, DefaultValues), Item("other", 0)))

NextEngine == CallComplete \/ CallIncomplete \/ CallExtraKey \/ Rerun

SpecEngine == Init /\ [][NextEngine]_vars

----------------------------------------------------------------------------
(* Properties *)

\* A run that reached the end of the result section
Shown == pc = "done" /\ submit_button /\ exception = "none"

\* Nothing of a result section exists
NoResult ==
    /\ base_val = None
    /\ current_val = None
    /\ shap_vals = <<>>
    /\ feature_names = <<>>
    /\ features = <<>>
    /\ feature_display = <<>>
    /\ risk_factors = <<>>
    /\ protective_factors = <<>>
    /\ contribution_df = <<>>

\* The documented domain of attribute k, in the model's units
InDomain(k, v) ==
    CASE k = "age"                     -> v \in 50..100
      [] k = "bmi"                     -> v \in 150..400
      [] k = "bl_crp"                  -> v \in 0..200
      [] k = "bl_hgb"                  -> v \in 80..200
      [] k \in {"PA", "Complications"} -> v \in {0, 1, 2}
      [] OTHER                         -> v \in {0, 1}

InDocumentedDomain(d) ==
    /\ \A k \in DisplayKeys : Has(d, k)
    /\ \A i \in 1..Len(d) : d[i].k \in DisplayKeys /\ InDomain(d[i].k, d[i].v)

\* The attribution table as the specification states it: weight in hundredths,
\* and the reference or the top of the scale in the units of the value
Table(k) ==
    CASE k = "age"           -> [kind |-> "ratio",    weight |-> 8, ref |-> 71]
      [] k = "bmi"           -> [kind |-> "ratio",    weight |-> 5, ref |-> 260]
      [] k = "bl_crp"        -> [kind |-> "ratio",    weight |-> 1, ref |-> 90]
      [] k = "FTSST"         -> [kind |-> "direct",   weight |-> 6, ref |-> 1]
      [] k = "Complications" -> [kind |-> "direct",   weight |-> 4, ref |-> 1]
      [] k = "fall"          -> [kind |-> "direct",   weight |-> 3, ref |-> 1]
      [] k = "ADL"           -> [kind |-> "direct",   weight |-> 2, ref |-> 1]
      [] k = "gender"        -> [kind |-> "direct",   weight |-> 4, ref |-> 1]
      [] k = "PA"            -> [kind |-> "inverted", weight |-> 2, ref |-> 2]
      [] k = "smoke"         -> [kind |-> "inverted", weight |-> 3, ref |-> 1]
      [] k = "bl_hgb"        -> [kind |-> "constant", weight |-> 1, ref |-> 1]

TableContribution(k, v) ==
    LET t == Table(k)
    IN  CASE t.kind = "ratio"    -> (Hundredths(t.weight) * v) \div t.ref
          [] t.kind = "direct"   -> Hundredths(t.weight) * v
          [] t.kind = "inverted" -> 0 - Hundredths(t.weight) * (t.ref - v)
          [] t.kind = "constant" -> 0 - Hundredths(t.weight)

\* The contribution the current result holds for key k
ShapOf(k) == shap_vals[index(features, k)]

InRiskFactors(k) ==
    \E j \in 1..Len(risk_factors) : risk_factors[j].name = feature_display_names(k)

InProtectiveFactors(k) ==
    \E j \in 1..Len(protective_factors) : protective_factors[j].name = feature_display_names(k)

\* C1: for a record within the documented domains the final probability is
\* at least 0.01 and at most 0.99.
C1_FinalInRange ==
    (Shown /\ InDocumentedDomain(sample_data)) =>
        (current_val >= Hundredths(1) /\ current_val <= Hundredths(99))

C1_Witness ==
    /\ Shown
    /\ InDocumentedDomain(sample_data)
    /\ Get(sample_data, "age") = 100
    /\ Get(sample_data, "bmi") = 400
    /\ Get(sample_data, "Complications") = 2
    /\ Get(sample_data, "FTSST") = 1

\* C2: the final probability is 0.35 plus the sum of the contributions when
\* that value lies in [0.01, 0.99], exactly 0.01 when it is below 0.01 and
\* exactly 0.99 when it is above 0.99; no error is raised.
C2_ClampedSum ==
    (pc = "done" /\ \A k \in DisplayKeys : Has(sample_data, k) /\ Len(sample_data) = 11) =>
        /\ exception = "none"
        /\ LET unclamped == Hundredths(35) + sum(shap_vals)
           IN  /\ (unclamped >= Hundredths(1) /\ unclamped <= Hundredths(99)) => current_val = unclamped
               /\ unclamped < Hundredths(1) => current_val = Hundredths(1)
               /\ unclamped > Hundredths(99) => current_val = Hundredths(99)

C2_Witness ==
    /\ Shown
    /\ InDocumentedDomain(sample_data)
    /\ current_val = Hundredths(35) + sum(shap_vals)
    /\ current_val > Hundredths(1)
    /\ current_val < Hundredths(99)

\* The two clamped cases of C2, which records outside the domains reach
C2_LowerCase == Shown /\ Hundredths(35) + sum(shap_vals) < Hundredths(1) /\ current_val = Hundredths(1)
C2_UpperCase == Shown /\ Hundredths(35) + sum(shap_vals) > Hundredths(99) /\ current_val = Hundredths(99)

\* C3: every attribute's contribution is the one the fixed table gives, the
\* hemoglobin contribution is -0.01 whatever the hemoglobin value, and the
\* baseline is 0.35.
C3_TableContributions ==
    Shown =>
        /\ base_val = Hundredths(35)
        /\ Len(shap_vals) = 11
        /\ \A k \in DisplayKeys :
              /\ InList(features, k)
              /\ ShapOf(k) = TableContribution(k, Get(sample_data, k))
        /\ ShapOf("bl_hgb") = 0 - Hundredths(1)

C3_Witness ==
    /\ Shown
    /\ features = Reverse(FormOrder)
    /\ Get(sample_data, "bl_hgb") = 80
    /\ Get(sample_data, "PA") = 0
    /\ Get(sample_data, "age") = 1000

\* C4: on a record from which a required attribute is absent the function
\* fails and returns nothing; no default stands in for the absent attribute.
C4_MissingAttributeFails ==
    (pc = "done" /\ \E k \in DisplayKeys : ~Has(sample_data, k)) =>
        (exception \in {"KeyError", "ValueError"} /\ NoResult)

C4_Witness ==
    /\ pc = "done"
    /\ ~Has(sample_data, "bl_hgb")
    /\ \A k \in DisplayKeys \ {"bl_hgb"} : Has(sample_data, k)
    /\ exception = "ValueError"
    /\ NoResult

\* C5 as stated: the order of the returned (feature, contribution) pairs is
\* fixed, so the same values inserted in another order give the same sequences.
C5_FixedOrder ==
    Shown =>
        \A o \in KeyOrders :
            \E r \in {calculate_shap_values(Reorder(sample_data, o))} :
                /\ r.features = features
                /\ r.feature_names = feature_names
                /\ r.shap_values = shap_vals

\* C5 amended: the returned features, names and contributions are in the
\* insertion order of the record's keys, and the same values inserted in
\* another order give each feature the same contribution.
C5_InsertionOrder ==
    Shown =>
        /\ features = keys(sample_data)
        /\ feature_names = [i \in 1..Len(sample_data) |-> feature_display_names(sample_data[i].k)]
        /\ \A o \in KeyOrders :
              \E r \in {calculate_shap_values(Reorder(sample_data, o))} :
                  /\ r.features = o
                  /\ \A k \in DisplayKeys : r.shap_values[index(o, k)] = ShapOf(k)

C5_Witness ==
    /\ Shown
    /\ features = AssignOrder
    /\ features # FormOrder
    /\ Get(sample_data, "FTSST") = 1

\* The records of the two examples, as the form builds them
RecordOf(val) == DictOf(FormOrder, DisplayKeys, val)

ReferenceRecord == RecordOf(DefaultValues)

MinRiskRecord ==
    RecordOf([k \in DisplayKeys |->
        CASE k = "age" -> 50 [] k = "bmi" -> 150 [] k = "bl_hgb" -> 80
          [] k = "PA" -> 2 [] k = "smoke" -> 1 [] OTHER -> 0])

\* The same record with pa = 0 and smoke = 0
LowestRecord ==
    RecordOf([k \in DisplayKeys |->
        CASE k = "age" -> 50 [] k = "bmi" -> 150 [] k = "bl_hgb" -> 80 [] OTHER -> 0])

\* C6 as stated: the record age=50, pa=2, smoke=1, all else at its minimum,
\* yields a final probability below that of the reference record, which is 0.41.
C6_MinRiskLower ==
    Shown =>
        /\ sample_data = ReferenceRecord => current_val = Hundredths(41)
        /\ sample_data = MinRiskRecord => current_val < Hundredths(41)

\* C6 amended: the reference record yields 0.41; the record age=50, pa=2,
\* smoke=1, all else at its minimum, yields more than 0.41; with pa=0 and
\* smoke=0 instead it yields less than 0.41.
C6_MinRiskHigher ==
    Shown =>
        /\ sample_data = ReferenceRecord => current_val = Hundredths(41)
        /\ sample_data = MinRiskRecord => current_val > Hundredths(41)
        /\ sample_data = LowestRecord => current_val < Hundredths(41)

C6_Witness == Shown /\ sample_data = MinRiskRecord /\ current_val > Hundredths(41)

\* C7: in the ranked table a positive contribution is labelled "increases
\* risk", a negative one "decreases risk", and a contribution of zero neither.
C7_ZeroIsNeutral ==
    Shown =>
        \A i \in 1..Len(contribution_df) :
            LET row == contribution_df[i]
            IN  /\ row.shap > 0 => row.direction = "increases risk"
                /\ row.shap < 0 => row.direction = "decreases risk"
                /\ row.shap = 0 => row.direction \notin {"increases risk", "decreases risk"}

\* Where each feature belongs by its contribution alone
PartitionByContribution ==
    \A k \in DisplayKeys :
        /\ InRiskFactors(k) <=> ShapOf(k) > Hundredths(1)
        /\ InProtectiveFactors(k) <=> ShapOf(k) < 0 - Hundredths(1)
        /\ ~(InRiskFactors(k) /\ InProtectiveFactors(k))

\* C8 as stated: for every record the function accepts, a feature is a risk
\* factor iff its contribution exceeds 0.01, a protective factor iff it is
\* below -0.01, and neither otherwise, whichever feature it is.
C8_PartitionAnyRecord == Shown => PartitionByContribution

\* C8 amended: the same, for the records within the documented domains.
C8_PartitionInDomain == (Shown /\ InDocumentedDomain(sample_data)) => PartitionByContribution

C8_Witness ==
    /\ Shown
    /\ InDocumentedDomain(sample_data)
    /\ features = Reverse(FormOrder)
    /\ Get(sample_data, "bl_crp") = 90
    /\ InRiskFactors("FTSST")
    /\ ~InRiskFactors("bl_crp")
    /\ InProtectiveFactors("smoke")
    /\ ~InProtectiveFactors("bl_hgb")

\* The widget whose value the form stores under key k
WidgetOf(k) ==
    CASE k = "FTSST" -> "ftsst" [] k = "Complications" -> "complications"
      [] k = "PA" -> "pa" [] k = "ADL" -> "adl" [] OTHER -> k

\* The value submitted for key k in this run
Submitted(k) == Widget(widgets, WidgetOf(k))

ClampedTableSum ==
    LET total == Hundredths(35) +
                 sum([i \in 1..Len(FormOrder) |-> TableContribution(FormOrder[i], Submitted(FormOrder[i]))])
    IN  IF total < Hundredths(1) THEN Hundredths(1)
        ELSE IF total > Hundredths(99) THEN Hundredths(99) ELSE total

\* C9: whatever runs came before, a run without a submission shows no result,
\* and a run with one shows the probability, contributions and summary lists
\* of the values submitted in that run.
C9_FromThisSubmission ==
    /\ (pc # "done" \/ ~submit_button) => (NoResult /\ sample_data = <<>> /\ exception = "none")
    /\ (pc = "done" /\ submit_button) =>
          /\ exception = "none"
          /\ Len(sample_data) = 11
          /\ current_val = ClampedTableSum
          /\ \A k \in DisplayKeys :
                /\ Has(sample_data, k)
                /\ Get(sample_data, k) = Submitted(k)
                /\ ShapOf(k) = TableContribution(k, Submitted(k))
                /\ InRiskFactors(k) <=> TableContribution(k, Submitted(k)) > Hundredths(1)
                /\ InProtectiveFactors(k) <=> TableContribution(k, Submitted(k)) < 0 - Hundredths(1)
          /\ \A j \in 1..Len(risk_factors) :
                \E k \in DisplayKeys :
                    risk_factors[j] = [name |-> feature_display_names(k), value |-> Submitted(k),
                                       shap_val |-> TableContribution(k, Submitted(k))]
          /\ \A j \in 1..Len(protective_factors) :
                \E k \in DisplayKeys :
                    protective_factors[j] = [name |-> feature_display_names(k), value |-> Submitted(k),
                                             shap_val |-> TableContribution(k, Submitted(k))]

C9_Witness ==
    /\ pc = "done"
    /\ submit_button
    /\ Submitted("age") = 100
    /\ Submitted("PA") = 1
    /\ Get(sample_data, "age") = 100
    /\ Len(protective_factors) = 1

\* C10: for every record the form produces the contributions sum to more than
\* 0 and less than 0.64, the clamp leaves the value as it is, and the final
\* probability exceeds the baseline 0.35.
C10_AboveBaseline ==
    Shown =>
        /\ sum(shap_vals) > 0
        /\ sum(shap_vals) < Hundredths(64)
        /\ current_val = base_val + sum(shap_vals)
        /\ current_val > Hundredths(35)

C10_Witness == Shown /\ sample_data = LowestRecord /\ current_val < Hundredths(36)

====
